---- MODULE Spec2Model ----
(***************************************************************************)
(* The "aside" code block processor of obsidian-aside-table (src/main.ts): *)
(* formatTable parses the block's source with three regular expressions    *)
(* (thumbnails, groups, entries) and the processor renders the result.     *)
(*                                                                         *)
(* A string is a sequence of characters, each a one-character TLA+ string. *)
(* Positions are 1-based; a position p names the gap before character p,   *)
(* so Len(s) + 1 is the end of input.  Every regular expression is         *)
(* modelled by the search its matcher performs: leftmost start, a lazy     *)
(* quantifier takes the shortest repetition the rest accepts, a greedy one *)
(* the longest.                                                            *)
(***************************************************************************)
EXTENDS Integers, Sequences, FiniteSets, TLC

VARIABLES source, vault, pc, groupMatches, table, dom

vars == <<source, vault, pc, groupMatches, table, dom>>

NL == "\n"
BS == "\\"

Min(S) == CHOOSE x \in S : \A y \in S : x <= y
Max(S) == CHOOSE x \in S : \A y \in S : x >= y

Sub(s, a, b) == IF b < a THEN <<>> ELSE SubSeq(s, a, b)

(***************************************************************************)
(* Regular expression primitives (ECMAScript, flags g and m).              *)
(***************************************************************************)
LineTerminators == {"\n", "\r"}

\* `.` matches any character but a line terminator
IsDot(c) == c \notin LineTerminators

\* `^` under the m flag
AtLineStart(s, p) == p = 1 \/ s[p - 1] \in LineTerminators

\* `$` under the m flag
AtLineEnd(s, p) == p = Len(s) + 1 \/ s[p] \in LineTerminators

\* where the longest run of `.` starting at p ends
DotRunEnd(s, p) ==
    LET stops == {q \in p..Len(s) : ~IsDot(s[q])}
    IN  IF stops = {} THEN Len(s) + 1 ELSE Min(stops)

\* where the longest run of (?:[^#]|\n) starting at p ends
BodyRunEnd(s, p) ==
    LET stops == {q \in p..Len(s) : s[q] = "#"}
    IN  IF stops = {} THEN Len(s) + 1 ELSE Min(stops)

NoMatch == [found |-> FALSE]

\* ThumbnailAt with the lookbehind (?<!\\) left out: any `|` separates
ThumbnailAtAnyBar(s, p) ==
    IF ~(p <= Len(s) /\ AtLineStart(s, p) /\ s[p] = "!") THEN NoMatch
    ELSE LET e == DotRunEnd(s, p + 1)
             Sep(q) == q <= Len(s) /\ s[q] = "|"
             q == Min({r \in (p + 1)..e : Sep(r) \/ AtLineEnd(s, r)})
         IN  IF Sep(q)
             THEN [found |-> TRUE, index |-> p, end |-> e,
                   m1 |-> Sub(s, p + 1, q - 1), m2 |-> <<Sub(s, q + 1, e - 1)>>]
             ELSE [found |-> TRUE, index |-> p, end |-> q,
                   m1 |-> Sub(s, p + 1, q - 1), m2 |-> <<>>]

\* The thumbnail pattern  /^!(.*?)(?:(?<!\\)\|(.*))?$/gm  tried at position p.
\* m2 is <<>> when the optional group did not take part (undefined).
ThumbnailAt(s, p) ==
    IF ~(p <= Len(s) /\ AtLineStart(s, p) /\ s[p] = "!") THEN NoMatch
    ELSE LET e == DotRunEnd(s, p + 1)
             Sep(q) == q <= Len(s) /\ s[q] = "|" /\ s[q - 1] # BS
             q == Min({r \in (p + 1)..e : Sep(r) \/ AtLineEnd(s, r)})
         IN  IF Sep(q)
             THEN [found |-> TRUE, index |-> p, end |-> e,
                   m1 |-> Sub(s, p + 1, q - 1), m2 |-> <<Sub(s, q + 1, e - 1)>>]
             ELSE [found |-> TRUE, index |-> p, end |-> q,
                   m1 |-> Sub(s, p + 1, q - 1), m2 |-> <<>>]

RECURSIVE ThumbnailMatchAll(_, _)
ThumbnailMatchAll(s, from) ==
    LET starts == {p \in from..Len(s) : ThumbnailAt(s, p).found}
    IN  IF starts = {} THEN <<>>
        ELSE LET m == ThumbnailAt(s, Min(starts))
             IN  <<m>> \o ThumbnailMatchAll(s, m.end)

\* The group pattern  /^#(.*)\n-((?:[^#]|\n)*)(?=#|$)/gm  tried at position p.
GroupAt(s, p) ==
    IF ~(p <= Len(s) /\ AtLineStart(s, p) /\ s[p] = "#") THEN NoMatch
    ELSE LET e == DotRunEnd(s, p + 1)
             names == {q \in (p + 1)..e :
                          q + 1 <= Len(s) /\ s[q] = NL /\ s[q + 1] = "-"}
         IN  IF names = {} THEN NoMatch
             ELSE LET q == Max(names)
                      f == BodyRunEnd(s, q + 2)
                      r == Max({x \in (q + 2)..f :
                                   \/ x <= Len(s) /\ s[x] = "#"
                                   \/ AtLineEnd(s, x)})
                  IN  [found |-> TRUE, index |-> p, end |-> r,
                       m1 |-> Sub(s, p + 1, q - 1), m2 |-> Sub(s, q + 2, r - 1)]

RECURSIVE GroupMatchAll(_, _)
GroupMatchAll(s, from) ==
    LET starts == {p \in from..Len(s) : GroupAt(s, p).found}
    IN  IF starts = {} THEN <<>>
        ELSE LET m == GroupAt(s, Min(starts))
             IN  <<m>> \o GroupMatchAll(s, m.end)

\* EntryAt with a greedy key, (.*) for (.*?): the last unescaped colon splits
EntryAtLastColon(t, p) ==
    IF ~(p <= Len(t) /\ AtLineStart(t, p) /\ t[p] = "-") THEN NoMatch
    ELSE LET e == DotRunEnd(t, p + 1)
             colons == {q \in (p + 1)..(e - 1) : t[q] = ":" /\ t[q - 1] # BS}
         IN  IF colons = {} THEN NoMatch
             ELSE LET q == Max(colons)
                  IN  [found |-> TRUE, index |-> p, end |-> e,
                       m1 |-> Sub(t, p + 1, q - 1), m2 |-> Sub(t, q + 1, e - 1)]

\* The entry pattern  /^-(.*?)(?<!\\):(.*)$/gm  tried at position p of a
\* group's body.
EntryAt(t, p) ==
    IF ~(p <= Len(t) /\ AtLineStart(t, p) /\ t[p] = "-") THEN NoMatch
    ELSE LET e == DotRunEnd(t, p + 1)
             colons == {q \in (p + 1)..(e - 1) : t[q] = ":" /\ t[q - 1] # BS}
         IN  IF colons = {} THEN NoMatch
             ELSE LET q == Min(colons)
                  IN  [found |-> TRUE, index |-> p, end |-> e,
                       m1 |-> Sub(t, p + 1, q - 1), m2 |-> Sub(t, q + 1, e - 1)]

RECURSIVE EntryMatchAll(_, _)
EntryMatchAll(t, from) ==
    LET starts == {p \in from..Len(t) : EntryAt(t, p).found}
    IN  IF starts = {} THEN <<>>
        ELSE LET m == EntryAt(t, Min(starts))
             IN  <<m>> \o EntryMatchAll(t, m.end)

(***************************************************************************)
(* String.prototype.replace with a string pattern of two characters:       *)
(* only the first occurrence is replaced.                                  *)
(***************************************************************************)
ReplaceFirst(s, a, b, by) ==
    LET hits == {i \in 1..(Len(s) - 1) : s[i] = a /\ s[i + 1] = b}
    IN  IF hits = {} THEN s
        ELSE LET i == Min(hits)
             IN  Sub(s, 1, i - 1) \o <<by>> \o Sub(s, i + 2, Len(s))

\* entryMatch[1].replace("\\:", ":")
DecodeKey(k) == ReplaceFirst(k, BS, ":", ":")

\* value.replace("\\;", ";")
DecodeSegment(v) == ReplaceFirst(v, BS, ";", ";")

(***************************************************************************)
(* entryMatch[2].split(/(?<!\\);/g): the segments of s from position p on. *)
(***************************************************************************)
RECURSIVE SplitValueFrom(_, _)
SplitValueFrom(s, p) ==
    LET cuts == {q \in p..Len(s) : s[q] = ";" /\ (q = 1 \/ s[q - 1] # BS)}
    IN  IF cuts = {} THEN <<Sub(s, p, Len(s))>>
        ELSE LET q == Min(cuts)
             IN  <<Sub(s, p, q - 1)>> \o SplitValueFrom(s, q + 1)

\* SplitValue with the lookbehind left out: split(";")
RECURSIVE SplitAtEverySemicolonFrom(_, _)
SplitAtEverySemicolonFrom(s, p) ==
    LET cuts == {q \in p..Len(s) : s[q] = ";"}
    IN  IF cuts = {} THEN <<Sub(s, p, Len(s))>>
        ELSE LET q == Min(cuts)
             IN  <<Sub(s, p, q - 1)>> \o SplitAtEverySemicolonFrom(s, q + 1)

SplitValueAtEverySemicolon(s) == SplitAtEverySemicolonFrom(s, 1)

SplitValue(s) == SplitValueFrom(s, 1)

\* EntryValue without the collapse of a single segment
EntryValueNoCollapse(segs) == [kind |-> "array", str |-> <<>>, arr |-> segs]

\* value.length === 1 ? value[0] : value      (string | string[])
EntryValue(segs) ==
    IF Len(segs) = 1
    THEN [kind |-> "string", str |-> segs[1], arr |-> <<>>]
    ELSE [kind |-> "array", str |-> <<>>, arr |-> segs]

DecodeEntry(m) ==
    LET segs == SplitValue(m.m2)
    IN  [key   |-> DecodeKey(m.m1),
         value |-> EntryValue([i \in 1..Len(segs) |-> DecodeSegment(segs[i])])]

Entries(body) ==
    LET ms == EntryMatchAll(body, 1)
    IN  [i \in 1..Len(ms) |-> DecodeEntry(ms[i])]

(***************************************************************************)
(* The link resolver.  vault is the set of link paths for which            *)
(* metadataCache.getFirstLinkpathDest finds a file; what the cache derives *)
(* from the file found (its link text, its path) is one opaque character   *)
(* in front of the name.                                                   *)
(***************************************************************************)
GetNoteLink(noteName, v) ==
    IF noteName \in v THEN <<"dir/">> \o noteName ELSE noteName

GetImageLink(imageName, v) ==
    IF imageName \in v THEN <<"app://local/">> \o imageName ELSE imageName

Thumbnails(s, v) ==
    LET ms == ThumbnailMatchAll(s, 1)
    IN  [i \in 1..Len(ms) |->
            [url |-> GetImageLink(ms[i].m1, v), description |-> ms[i].m2]]

Groups(ms) ==
    [i \in 1..Len(ms) |-> [name |-> ms[i].m1, entries |-> Entries(ms[i].m2)]]

\* LinkMatch with the lookbehind (?<!\\) left out: any `|` separates
LinkMatchAnyBar(s) ==
    IF ~(Len(s) >= 2 /\ s[1] = "[" /\ s[2] = "[") THEN NoMatch
    ELSE LET n == Len(s)
             e == DotRunEnd(s, 3)
             Close(q) == q + 1 = n /\ s[q] = "]" /\ s[q + 1] = "]"
             Labels(q) == {r \in (q + 1)..DotRunEnd(s, q + 1) : Close(r)}
             Sep(q) == q <= n /\ s[q] = "|" /\ Labels(q) # {}
             stops == {q \in 3..e : Sep(q) \/ Close(q)}
         IN  IF stops = {} THEN NoMatch
             ELSE LET q == Min(stops)
                  IN  IF Sep(q)
                      THEN [found |-> TRUE, m1 |-> Sub(s, 3, q - 1),
                            m2 |-> <<Sub(s, q + 1, Min(Labels(q)) - 1)>>]
                      ELSE [found |-> TRUE, m1 |-> Sub(s, 3, q - 1), m2 |-> <<>>]

\* entry.value.match(/^\[\[(.*?)(?:(?<!\\)\|(.*?))?]]$/): without flags ^ and $
\* are the ends of the value.  m2 is <<>> when undefined.
LinkMatch(s) ==
    IF ~(Len(s) >= 2 /\ s[1] = "[" /\ s[2] = "[") THEN NoMatch
    ELSE LET n == Len(s)
             e == DotRunEnd(s, 3)
             Close(q) == q + 1 = n /\ s[q] = "]" /\ s[q + 1] = "]"
             Labels(q) == {r \in (q + 1)..DotRunEnd(s, q + 1) : Close(r)}
             Sep(q) == q <= n /\ s[q] = "|" /\ s[q - 1] # BS /\ Labels(q) # {}
             stops == {q \in 3..e : Sep(q) \/ Close(q)}
         IN  IF stops = {} THEN NoMatch
             ELSE LET q == Min(stops)
                  IN  IF Sep(q)
                      THEN [found |-> TRUE, m1 |-> Sub(s, 3, q - 1),
                            m2 |-> <<Sub(s, q + 1, Min(Labels(q)) - 1)>>]
                      ELSE [found |-> TRUE, m1 |-> Sub(s, 3, q - 1), m2 |-> <<>>]

(***************************************************************************)
(* The elements the processor creates, in document order.                  *)
(***************************************************************************)
Element(cls, text, href, items) ==
    [cls |-> cls, text |-> text, href |-> href, items |-> items]

\* if (thumbnail.description) thumbnailImage.title = thumbnail.description
DrawThumbnail(t) ==
    [src   |-> t.url,
     title |-> IF t.description # <<>> /\ t.description[1] # <<>>
               THEN t.description ELSE <<>>]

DrawValue(value, v) ==
    IF value.kind = "string"
    THEN LET isLink == LinkMatch(value.str)
         IN  IF isLink.found
             THEN LET note == GetNoteLink(isLink.m1, v)
                  IN  Element("a", IF isLink.m2 # <<>> THEN isLink.m2[1] ELSE note,
                              note, <<>>)
             ELSE Element("span", value.str, <<>>, <<>>)
    ELSE Element("ul", <<>>, <<>>, value.arr)

DrawEntry(entry, v) ==
    <<Element("strong", entry.key, <<>>, <<>>), DrawValue(entry.value, v)>>

RECURSIVE DrawEntries(_, _)
DrawEntries(es, v) ==
    IF es = <<>> THEN <<>>
    ELSE DrawEntry(Head(es), v) \o DrawEntries(Tail(es), v)

RECURSIVE DrawGroups(_, _)
DrawGroups(gs, v) ==
    IF gs = <<>> THEN <<>>
    ELSE <<Element("header", Head(gs).name, <<>>, <<>>)>>
         \o DrawEntries(Head(gs).entries, v) \o DrawGroups(Tail(gs), v)

(***************************************************************************)
(* Inputs.                                                                 *)
(***************************************************************************)
MaxLines == 4

MaxThumb == 6

MaxBody == 6

MaxInner == 5

SeqsUpTo(A, n) == UNION {[1..k -> A] : k \in 0..n}

RECURSIVE Join(_)
Join(ls) ==
    IF ls = <<>> THEN <<>>
    ELSE IF Len(ls) = 1 THEN ls[1]
    ELSE ls[1] \o <<NL>> \o Join(Tail(ls))

\* blocks of up to MaxLines lines, each a line of the corpus
Corpus ==
    { <<>>,
      <<"#", "S">>,
      <<"-", "H", ":", "1">>,
      <<"-", "M", ":", "2", ";", "3">>,
      <<"-", "C", ":", "#", "f">>,
      <<"-", "n">>,
      <<"!", "u", "|", "d">>,
      <<"x">> }

LineSources == {Join(ls) : ls \in SeqsUpTo(Corpus, MaxLines)}

\* every block of up to MaxThumb characters of the thumbnail syntax
ThumbAlphabet == {"!", NL, "u", "|", BS}

ThumbSources == SeqsUpTo(ThumbAlphabet, MaxThumb)

\* a group of two entry lines, the second one every line of up to MaxBody
\* characters of the entry syntax
EntryAlphabet == {"k", ":", ";", BS}

EntryPrefix == <<"#", "G", NL, "-", "a", ":", "b", NL, "-">>

EntrySources == {EntryPrefix \o b : b \in SeqsUpTo(EntryAlphabet, MaxBody)}

\* a group of two entry lines, the value of the second one every text of up
\* to MaxInner characters of the link syntax, with and without its brackets
LinkAlphabet == {"t", "|", BS, "]"}

Brackets ==
    { <<<<"[", "[">>, <<"]", "]">>>>,
      <<<<"[">>, <<"]", "]">>>>,
      <<<<"[", "[">>, <<"]">>>>,
      <<<<>>, <<>>>> }

LinkSources ==
    {EntryPrefix \o <<"k", ":">> \o w[1] \o inner \o w[2] :
        w \in Brackets, inner \in SeqsUpTo(LinkAlphabet, MaxInner)}

Known == {<<"u">>, <<"t">>}

Vaults == {{}, Known}

NoTable == [thumbnails |-> <<>>, groups |-> <<>>]

NoDom == [thumbnails |-> <<>>, rows |-> <<>>]

Start(sources) ==
    /\ source \in sources
    /\ vault \in Vaults
    /\ pc = "source"
    /\ groupMatches = <<>>
    /\ table = NoTable
    /\ dom = NoDom

Init == Start(LineSources)

InitThumb == Start(ThumbSources)

InitEntry == Start(EntrySources)

InitLink == Start(LinkSources)

(***************************************************************************)
(* The code block processor: formatTable(source), then the drawing loops.  *)
(***************************************************************************)
FormatTable ==
    /\ pc = "source"
    /\ groupMatches' = GroupMatchAll(source, 1)
    /\ table' = [thumbnails |-> Thumbnails(source, vault),
                 groups     |-> Groups(groupMatches')]
    /\ pc' = "table"
    /\ UNCHANGED <<source, vault, dom>>

Draw ==
    /\ pc = "table"
    /\ dom' = [thumbnails |-> [i \in 1..Len(table.thumbnails) |->
                                  DrawThumbnail(table.thumbnails[i])],
               rows       |-> DrawGroups(table.groups, vault)]
    /\ pc' = "drawn"
    /\ UNCHANGED <<source, vault, groupMatches, table>>

Next == FormatTable \/ Draw

Spec == Init /\ [][Next]_vars

SpecThumb == InitThumb /\ [][Next]_vars

SpecEntry == InitEntry /\ [][Next]_vars

SpecLink == InitLink /\ [][Next]_vars

(***************************************************************************)
(* The syntax as the specification reads it, line by line.                 *)
(***************************************************************************)
LineStarts(s) == {p \in 1..(Len(s) + 1) : p = 1 \/ s[p - 1] = NL}

LineEnd(s, p) == Min({q \in p..(Len(s) + 1) : q = Len(s) + 1 \/ s[q] = NL})

LineAt(s, p) == Sub(s, p, LineEnd(s, p) - 1)

RECURSIVE Ascending(_)
Ascending(S) == IF S = {} THEN <<>> ELSE <<Min(S)>> \o Ascending(S \ {Min(S)})

\* the lines of s that start with c, in order
LinesWith(s, c) ==
    LET ps == Ascending({p \in LineStarts(s) : p <= Len(s) /\ s[p] = c})
    IN  [i \in 1..Len(ps) |-> LineAt(s, ps[i])]

\* the positions of c in s that no backslash immediately precedes
Unescaped(s, c) == {i \in 1..Len(s) : s[i] = c /\ (i = 1 \/ s[i - 1] # BS)}

\* the k-th piece of s cut at its unescaped c
Piece(s, c, k) ==
    LET cuts == Ascending(Unescaped(s, c))
    IN  Sub(s, IF k = 1 THEN 1 ELSE cuts[k - 1] + 1,
               IF k = Len(cuts) + 1 THEN Len(s) ELSE cuts[k] - 1)

\* s with every escaped c, `\c`, replaced by c
RECURSIVE UnescapeAll(_, _)
UnescapeAll(s, c) ==
    IF Len(s) < 2 THEN s
    ELSE IF s[1] = BS /\ s[2] = c
         THEN <<c>> \o UnescapeAll(Sub(s, 3, Len(s)), c)
         ELSE <<s[1]>> \o UnescapeAll(Tail(s), c)

Contains(s, a, b) == \E i \in 1..(Len(s) - 1) : s[i] = a /\ s[i + 1] = b

IsEntryLine(l) == Unescaped(l, ":") # {}

\* the lines `-key:value` of a text, in order
EntryLines(text) == SelectSeq(LinesWith(text, "-"), IsEntryLine)

RawKey(l) == Sub(l, 2, Min(Unescaped(l, ":")) - 1)

ValueText(l) == Sub(l, Min(Unescaped(l, ":")) + 1, Len(l))

\* the segments of an entry's value, one for a plain string
Segments(value) == IF value.kind = "string" THEN <<value.str>> ELSE value.arr

\* the text a group match owns: what follows its header line
Region(s, m) == Sub(s, m.index + Len(m.m1) + 2, m.end - 1)

\* where the first header line after position p starts, or the end of input
NextHeader(s, p) ==
    Min({q \in (p + 1)..Len(s) : s[q - 1] = NL /\ s[q] = "#"} \cup {Len(s) + 1})

Parsed == pc # "source"

(***************************************************************************)
(* Group Splitter.                                                         *)
(***************************************************************************)
\* C1: the entries of a group are exactly the entry lines `-key:value` that
\* follow its header, the one directly under the header included, in order.
C1_EntriesAreAllEntryLines ==
    Parsed =>
        \A g \in 1..Len(groupMatches) :
            LET ls == EntryLines(Region(source, groupMatches[g]))
                es == table.groups[g].entries
            IN  /\ Len(es) = Len(ls)
                /\ \A j \in 1..Len(ls) :
                       es[j] = DecodeEntry([m1 |-> RawKey(ls[j]),
                                            m2 |-> ValueText(ls[j])])

\* C2: groups holds one Group per header line (a line starting with `#`), in
\* header order, named by the header text, also when no `-` line follows.
C2_OneGroupPerHeaderLine ==
    Parsed =>
        LET hs == LinesWith(source, "#")
        IN  /\ Len(table.groups) = Len(hs)
            /\ \A g \in 1..Len(hs) : table.groups[g].name = Tail(hs[g])

\* C3: a group's region ends at the next line that starts with `#` or at the
\* end of input; a `#` inside a line does not end it.
C3_RegionEndsAtHeaderLine ==
    Parsed =>
        \A g \in 1..Len(groupMatches) :
            groupMatches[g].end = NextHeader(source, groupMatches[g].index)

(***************************************************************************)
(* Thumbnail Scanner.                                                      *)
(***************************************************************************)
ThumbnailOfLine(l, v) ==
    LET seps == Unescaped(l, "|")
    IN  IF seps = {}
        THEN [url |-> GetImageLink(Sub(l, 2, Len(l)), v), description |-> <<>>]
        ELSE [url |-> GetImageLink(Sub(l, 2, Min(seps) - 1), v),
              description |-> <<Sub(l, Min(seps) + 1, Len(l))>>]

\* C4: every line starting with `!` yields one Thumbnail, in source order,
\* split at the first `|` no backslash precedes: the text before it goes to
\* the image resolver, the rest of the line is the description; without
\* such a `|` the description is absent.
C4_ThumbnailPerLine ==
    Parsed =>
        LET ls == LinesWith(source, "!")
        IN  /\ Len(table.thumbnails) = Len(ls)
            /\ \A i \in 1..Len(ls) :
                   table.thumbnails[i] = ThumbnailOfLine(ls[i], vault)

C4_Witness ==
    /\ pc = "table"
    /\ Len(table.thumbnails) = 2
    /\ table.thumbnails[1].description = <<>>
    /\ table.thumbnails[2].description # <<>>
    /\ Contains(table.thumbnails[2].url, BS, "|")

\* C5: with a resolver that echoes its input, an escaped separator `\|` of
\* the URL part is stored as `|`, the backslash removed.
C5_EscapedBarDecoded ==
    Parsed /\ vault = {} =>
        LET ls == LinesWith(source, "!")
        IN  \A i \in 1..Len(ls) :
                /\ i <= Len(table.thumbnails)
                /\ table.thumbnails[i].url
                       = UnescapeAll(ThumbnailOfLine(ls[i], {}).url, "|")

(***************************************************************************)
(* Entry Decoder.                                                          *)
(***************************************************************************)
\* C6: an entry line `-key:value` is split at its first `:` that no backslash
\* precedes: the key is the text between the `-` and that colon, the value
\* text everything after it to the end of the line; a line without such a
\* colon gives no entry.
C6_SplitAtFirstUnescapedColon ==
    Parsed =>
        \A g \in 1..Len(groupMatches) :
            LET ls == EntryLines(groupMatches[g].m2)
                es == table.groups[g].entries
            IN  /\ Len(es) = Len(ls)
                /\ \A j \in 1..Len(ls) :
                       es[j] = DecodeEntry([m1 |-> RawKey(ls[j]),
                                            m2 |-> ValueText(ls[j])])

C6_Witness ==
    /\ pc = "table"
    /\ \E g \in 1..Len(groupMatches) :
           LET ls == EntryLines(groupMatches[g].m2)
           IN  \E j \in 1..Len(ls) :
                   /\ Contains(RawKey(ls[j]), BS, ":")
                   /\ \E i \in 1..Len(ValueText(ls[j])) : ValueText(ls[j])[i] = ":"
                   /\ j <= Len(table.groups[g].entries)
                   /\ table.groups[g].entries[j].key = DecodeKey(RawKey(ls[j]))

\* C7: the value text is split at exactly its `;` that no backslash
\* precedes, the segments kept in order; two or more segments make the
\* entry's value that list.
C7_SplitAtUnescapedSemicolons ==
    Parsed =>
        \A g \in 1..Len(groupMatches) :
            LET ls == EntryLines(groupMatches[g].m2)
                es == table.groups[g].entries
            IN  /\ Len(es) = Len(ls)
                /\ \A j \in 1..Len(ls) :
                       LET n == Cardinality(Unescaped(ValueText(ls[j]), ";")) + 1
                       IN  /\ Len(Segments(es[j].value)) = n
                           /\ n >= 2 => es[j].value.kind = "array"
                           /\ \A k \in 1..n :
                                  Segments(es[j].value)[k]
                                      = DecodeSegment(Piece(ValueText(ls[j]), ";", k))

C7_Witness ==
    /\ pc = "table"
    /\ \E g \in 1..Len(table.groups) :
           \E j \in 1..Len(table.groups[g].entries) :
               LET value == table.groups[g].entries[j].value
               IN  /\ value.kind = "array"
                   /\ Len(value.arr) >= 3
                   /\ \E k \in 1..Len(value.arr) :
                          \E i \in 1..Len(value.arr[k]) : value.arr[k][i] = ";"

\* C8: an entry's value is a single string or a list of at least two
\* strings; a value text without an unescaped `;`, the empty one included,
\* gives the single string.
C8_ValueStringOrListOfTwo ==
    Parsed =>
        \A g \in 1..Len(groupMatches) :
            LET ls == EntryLines(groupMatches[g].m2)
                es == table.groups[g].entries
            IN  /\ \A j \in 1..Len(es) :
                       \/ es[j].value.kind = "string"
                       \/ es[j].value.kind = "array" /\ Len(es[j].value.arr) >= 2
                /\ Len(es) = Len(ls)
                /\ \A j \in 1..Len(ls) :
                       Unescaped(ValueText(ls[j]), ";") = {}
                           => es[j].value.kind = "string"

C8_Witness ==
    /\ pc = "table"
    /\ \E g \in 1..Len(table.groups) :
           \E j \in 1..Len(table.groups[g].entries) :
               LET value == table.groups[g].entries[j].value
               IN  /\ value.kind = "string"
                   /\ \E i \in 1..Len(value.str) : value.str[i] = ";"

\* C10: escape decoding is complete: every `\:` of the raw key is replaced
\* by `:` and every `\;` of each raw value segment by `;`.
C10_EveryEscapeDecoded ==
    Parsed =>
        \A g \in 1..Len(groupMatches) :
            LET ls == EntryLines(groupMatches[g].m2)
                es == table.groups[g].entries
            IN  \A j \in 1..Len(ls) :
                    /\ j <= Len(es)
                    /\ es[j].key = UnescapeAll(RawKey(ls[j]), ":")
                    /\ \A k \in 1..Len(Segments(es[j].value)) :
                           Segments(es[j].value)[k]
                               = UnescapeAll(Piece(ValueText(ls[j]), ";", k), ";")

(***************************************************************************)
(* Render sink.                                                            *)
(***************************************************************************)
RECURSIVE AllEntries(_)
AllEntries(gs) ==
    IF gs = <<>> THEN <<>> ELSE Head(gs).entries \o AllEntries(Tail(gs))

IsValueElement(el) == el.cls \in {"a", "span", "ul"}

\* `[[target]]` or `[[target|label]]`
LinkShape(s) ==
    /\ Len(s) >= 4
    /\ s[1] = "[" /\ s[2] = "["
    /\ s[Len(s) - 1] = "]" /\ s[Len(s)] = "]"

Inner(s) == Sub(s, 3, Len(s) - 2)

\* the same unescaped test inside the brackets: the character before the
\* first one is the second `[`
AnchorOf(s, v) ==
    LET in   == Inner(s)
        seps == Unescaped(in, "|")
        note == GetNoteLink(IF seps = {} THEN in ELSE Sub(in, 1, Min(seps) - 1), v)
    IN  Element("a",
                IF seps = {} THEN note ELSE Sub(in, Min(seps) + 1, Len(in)),
                note, <<>>)

\* C9: a plain-string value of link shape is drawn as an anchor: the text
\* inside the brackets is split at the first `|` that no backslash
\* precedes, the part before it is the target given to the note resolver,
\* the part after it the label; without such a `|` the label is the
\* resolved target.
C9_LinkTargetAndLabel ==
    pc = "drawn" =>
        LET es  == AllEntries(table.groups)
            els == SelectSeq(dom.rows, IsValueElement)
        IN  /\ Len(els) = Len(es)
            /\ \A k \in 1..Len(es) :
                   es[k].value.kind = "string" /\ LinkShape(es[k].value.str)
                       => els[k] = AnchorOf(es[k].value.str, vault)

C9_Witness ==
    /\ pc = "drawn"
    /\ \E k \in 1..Len(AllEntries(table.groups)) :
           LET value == AllEntries(table.groups)[k].value
               els   == SelectSeq(dom.rows, IsValueElement)
           IN  /\ value.kind = "string" /\ LinkShape(value.str)
               /\ Contains(Inner(value.str), BS, "|")
               /\ Unescaped(Inner(value.str), "|") # {}
               /\ els[k].cls = "a"
               /\ els[k].text # els[k].href
               /\ els[k].href # Inner(value.str)

====
